---- MODULE Spec2Model ----
(***************************************************************************)
(* Model of the game engine of src/bot.py (the "Kabak" word-guessing bot). *)
(*                                                                         *)
(* State: the in-memory session kept in ctx.bot_data (players, queue,      *)
(* state_game_active), the per-user ctx.user_data["guess_building_id"],    *)
(* and the snapshot file STATE_PATH (game_state.json).  The catalog        *)
(* config.json is immutable configuration.                                 *)
(*                                                                         *)
(* Timestamps (last_active, the attempt's time) are not modelled: no       *)
(* handler branches on them except check_inactivity, which is never called.*)
(***************************************************************************)
EXTENDS Integers, Sequences, FiniteSets, TLC

\* ------------------------------------------------------------------ bounds
\* The game never ends in the code; the model explores the runs with at most
\* MaxTurns queue advances (MaxRaceTurns where guess handlers interleave).
MaxTurns == 2
MaxRaceTurns == 2
\* json.dump hands the snapshot to the file in pieces; a file may hold any
\* prefix of them, here at most Chunks pieces
Chunks == 2
\* number of rotations applied to a queue on its own
MaxAdvances == 6
\* longest word compare_word is applied to on its own
MaxWordLen == 3

\* ------------------------------------------------------- identities, words
Admin == "adm"
Users == {"u1", "u2", "u3"}
\* the users that send updates where every handler is explored
Actors == {"u1", "u2"}

\* upd.effective_user.username or full_name: a fixed attribute of the user;
\* two users may carry the same display name.
Username(uid) ==
  CASE uid = "u1" -> "ann"
    [] uid = "u2" -> "bob"
    [] uid = "u3" -> "ann"
    [] OTHER -> "root"

Uppers == {"A", "B", "C"}
Space == " "

UpperCh(ch) ==
  CASE ch = "a" -> "A"
    [] ch = "b" -> "B"
    [] ch = "c" -> "C"
    [] OTHER -> ch

LowerCh(ch) ==
  CASE ch = "A" -> "a"
    [] ch = "B" -> "b"
    [] ch = "C" -> "c"
    [] OTHER -> ch

\* str.upper(), str.lower(), str.strip() on a word given as a sequence of letters
Upper(w) == [i \in 1..Len(w) |-> UpperCh(w[i])]
Lower(w) == [i \in 1..Len(w) |-> LowerCh(w[i])]

RECURSIVE LStrip(_)
LStrip(w) == IF w # <<>> /\ Head(w) = Space THEN LStrip(Tail(w)) ELSE w

RECURSIVE RStrip(_)
RStrip(w) ==
  IF w # <<>> /\ w[Len(w)] = Space THEN RStrip(SubSeq(w, 1, Len(w) - 1)) ELSE w

Strip(w) == RStrip(LStrip(w))

\* len(word) != 5
WordLen == 5

W_cabab == <<"c", "a", "b", "a", "b">>
W_abbca == <<"a", "b", "b", "c", "a">>
W_ccccc == <<"c", "c", "c", "c", "c">>

\* New_rus.txt, normalised to lower case
WORDS == {W_cabab, W_abbca}

\* config.json: the catalog (id, target_word); one secret is stored in upper
\* case and one in mixed case
CfgBuildings ==
  << [id |-> 1, target_word |-> <<"C", "A", "B", "A", "B">>],
     [id |-> 2, target_word |-> <<"a", "B", "b", "c", "A">>] >>

\* a building id that no catalog entry carries (a stale or forged button),
\* and the users that press such a button
UnknownId == 9
StaleUsers == {"u1"}
NoBuilding == 0
CatalogIds == {CfgBuildings[i].id : i \in 1..Len(CfgBuildings)}

\* message texts a user may send while a building is selected
GuessTexts ==
  { <<"C", "a", "B", "a", "b", " ">>,
    W_abbca,
    W_ccccc,
    <<"a", "b">> }

\* ------------------------------------------------------------ pure helpers
\* faulty variant: a matched letter that is not taken out of the remaining ones
RemoveFirst_Keep(s, x) == s

\* list.remove(x): drops the first occurrence
RECURSIVE RemoveFirst(_, _)
RemoveFirst(s, x) ==
  IF s = <<>> THEN <<>>
  ELSE IF Head(s) = x THEN Tail(s)
  ELSE <<Head(s)>> \o RemoveFirst(Tail(s), x)

InSeq(x, s) == \E i \in 1..Len(s) : s[i] = x

\* first loop of compare_word: greens, and the target letters left over
RECURSIVE FirstPass(_, _, _)
FirstPass(guess, target, i) ==
  IF i > Len(guess) THEN [res |-> <<>>, remaining |-> <<>>]
  ELSE LET rest == FirstPass(guess, target, i + 1)
       IN IF guess[i] = target[i]
          THEN [res |-> <<"green">> \o rest.res, remaining |-> rest.remaining]
          ELSE [res |-> <<"gray">> \o rest.res,
                remaining |-> <<target[i]>> \o rest.remaining]

\* second loop of compare_word, left to right
RECURSIVE SecondPass(_, _, _, _)
SecondPass(guess, res, remaining, i) ==
  IF i > Len(guess) THEN res
  ELSE IF res[i] = "gray" /\ InSeq(guess[i], remaining)
       THEN SecondPass(guess, [res EXCEPT ![i] = "yellow"],
                       RemoveFirst(remaining, guess[i]), i + 1)
       ELSE SecondPass(guess, res, remaining, i + 1)

compare_word(guess, target) ==
  LET g == Upper(guess)
      t == Upper(target)
      fp == FirstPass(g, t, 1)
  IN SecondPass(g, fp.res, fp.remaining, 1)

\* faulty variant: a yellow letter scored like a green one
ColourPoints_YellowTen(c) == IF c = "green" \/ c = "yellow" THEN 10 ELSE 0

ColourPoints(c) == IF c = "green" THEN 10 ELSE IF c = "yellow" THEN 5 ELSE 0

RECURSIVE SumPoints(_)
SumPoints(colours) ==
  IF colours = <<>> THEN 0
  ELSE ColourPoints(Head(colours)) + SumPoints(Tail(colours))

score_from(colours) == SumPoints(colours)

\* ------------------------------------------------------------------- state
VARIABLES
  players,   \* ctx.bot_data["players"]: uid -> [username, score]
  queue,     \* ctx.bot_data["queue"]: sequence of uids, head = current turn
  active,    \* ctx.bot_data["state_game_active"]
  gsel,      \* ctx.user_data["guess_building_id"] of each user (NoBuilding = unset)
  file,      \* the snapshot file STATE_PATH
  pend,      \* uid -> locals of its guess handler suspended at "await reply"
  turns,     \* number of accepted moves handled so far (bounds the exploration)
  ev,        \* the last handled update: operation, user, reply, inputs, notices
  tmp,       \* the file STATE_PATH.with_suffix(".tmp")
  sv,        \* the save_state call in progress: its position and its argument
  cw,        \* a compare_word call on its own: arguments and result
  rot        \* a queue rotated on its own: the order it started from, the count

vars == <<players, queue, active, gsel, file, pend, turns, ev, tmp, sv, cw, rot>>

\* what the handlers of a session never touch
calls == <<sv, cw, rot>>

NoAttempt == [user_id |-> "", username |-> "", word |-> <<>>]

\* load_json(STATE_PATH) when the file does not exist: {}; written counts the
\* pieces of the content that are in the file (Chunks: the whole snapshot)
NoFile ==
  [exists |-> FALSE, buildings |-> <<>>, queue |-> <<>>, game_state |-> "",
   written |-> 0]

NoSave == [pc |-> "idle", state |-> NoFile]

NoCompare == [guess |-> <<>>, target |-> <<>>, res |-> <<>>, done |-> FALSE]

NoRotation == [orig |-> <<>>, n |-> 0]

Event(op, uid, res, text, b, target, dice, notes) ==
  [op |-> op, uid |-> uid, res |-> res, text |-> text, b |-> b,
   target |-> target, dice |-> dice, notes |-> notes, rows |-> <<>>]

\* a reply that carries rows: the lines of the score table, the buttons of a
\* keyboard
Shown(op, uid, res, rows) ==
  [op |-> op, uid |-> uid, res |-> res, text |-> <<>>, b |-> NoBuilding,
   target |-> "", dice |-> 0, notes |-> <<>>, rows |-> rows]

Plain(op, uid, res) == Event(op, uid, res, <<>>, NoBuilding, "", 0, <<>>)

Registered == DOMAIN players

\* "Your turn" notice of advance_queue / notify_current_player
TurnNote(q) == IF q = <<>> THEN <<>> ELSE <<[to |-> q[1], kind |-> "your_turn"]>>

\* ------------------------------------------------------------ catalog, file
CfgHas(b) == \E i \in 1..Len(CfgBuildings) : CfgBuildings[i].id = b

\* next((b for b in cfg["buildings"] if b["id"] == b_id), None)
CfgOf(b) ==
  CfgBuildings[CHOOSE i \in 1..Len(CfgBuildings) :
     /\ CfgBuildings[i].id = b
     /\ \A j \in 1..(i - 1) : CfgBuildings[j].id # b]

\* next((d for d in state["buildings"] if d["id"] == b_id), {})
FindDyn(buildings, b) ==
  IF \E i \in 1..Len(buildings) : buildings[i].id = b
  THEN buildings[CHOOSE i \in 1..Len(buildings) :
          /\ buildings[i].id = b
          /\ \A j \in 1..(i - 1) : buildings[j].id # b]
  ELSE [id |-> NoBuilding, last_attempt |-> NoAttempt, is_closed |-> FALSE]

\* [d if d["id"] != b_id else dyn for d in state["buildings"]]
ReplaceDyn(buildings, b, dyn) ==
  [i \in 1..Len(buildings) |-> IF buildings[i].id # b THEN buildings[i] ELSE dyn]

\* the fresh building list of begin
FreshBuildings ==
  [i \in 1..Len(CfgBuildings) |->
     [id |-> CfgBuildings[i].id, last_attempt |-> NoAttempt, is_closed |-> FALSE]]

\* ------------------------------------------------------------------- queue
\* faulty variant: the last player moved to the front
advance_queue_Right(q) ==
  IF q = <<>> THEN q ELSE <<q[Len(q)]>> \o SubSeq(q, 1, Len(q) - 1)

\* faulty variant: the head popped and not appended again
advance_queue_Drop(q) == IF q = <<>> THEN q ELSE Tail(q)

\* q.append(q.pop(0)), nothing on an empty queue
advance_queue(q) == IF q = <<>> THEN q ELSE Tail(q) \o <<Head(q)>>

\* faulty variant: the turn check left out
NotHead_Never(q, uid) == FALSE

\* ctx.bot_data["queue"][0] != uid
NotHead(q, uid) == q[1] # uid

\* faulty variants: join that leaves the queue alone; join that puts the player first
JoinQueue_Skip(q, uid) == q

JoinQueue_Front(q, uid) == <<uid>> \o q

\* ctx.bot_data["queue"].append(uid) of join
JoinQueue(q, uid) == Append(q, uid)

Perms(S) ==
  {q \in [1..Cardinality(S) -> S] : \A i, j \in 1..Cardinality(S) : q[i] = q[j] => i = j}

\* -------------------------------------------------------------------- Init
Init ==
  /\ players = << >>
  /\ queue = << >>
  /\ active = FALSE
  /\ gsel = [u \in Users |-> NoBuilding]
  /\ file = NoFile
  /\ pend = << >>
  /\ turns = 0
  /\ ev = Plain("init", "", "ok")
  /\ tmp = NoFile
  /\ sv = NoSave
  /\ cw = NoCompare
  /\ rot = NoRotation

\* the uids whose guess handler is suspended between its two halves
Pending == DOMAIN pend

NoPending == Pending = {}

\* ------------------------------------------------------------ administrator
\* faulty variant: the decorator admin_only left off
NotAdmin_Never(uid) == FALSE

\* upd.effective_user.id != ctx.bot_data["admin_id"] of admin_only
NotAdmin(uid) == uid # Admin

\* faulty variant: join without the test for the administrator
JoinByAdmin_Never(uid) == FALSE

\* upd.effective_user.id == ctx.bot_data["admin_id"] of join
JoinByAdmin(uid) == uid = Admin

\* -------------------------------------------------------------------- join
Join(uid) ==
  /\ NoPending
  /\ IF JoinByAdmin(uid)
     THEN /\ ev' = Plain("join", uid, "AdminCannotJoin")
          /\ UNCHANGED <<players, queue>>
     ELSE IF uid \in Registered
     THEN /\ ev' = Plain("join", uid, "AlreadyJoined")
          /\ UNCHANGED <<players, queue>>
     ELSE /\ players' = [u \in Registered \cup {uid} |->
                           IF u = uid THEN [username |-> Username(uid), score |-> 0]
                           ELSE players[u]]
          /\ queue' = JoinQueue(queue, uid)
          /\ ev' = Plain("join", uid, "ok")
  /\ UNCHANGED <<active, gsel, file, pend, turns, tmp, calls>>

\* ------------------------------------------------------------------- begin
\* state["buildings"] after the "if not state.get('buildings')" of begin
BeginBuildings(state) ==
  IF state.buildings = <<>> THEN FreshBuildings ELSE state.buildings

\* the state dict begin hands to save_state
BeginState(state, shuffled) ==
  [exists |-> TRUE, buildings |-> BeginBuildings(state), queue |-> shuffled,
   game_state |-> "active", written |-> Chunks]

\* faulty variant: begin without the test for an empty registry
NoPlayers_Never(reg) == FALSE

\* "if not players" of begin
NoPlayers(reg) == reg = {}

Begin(uid) ==
  /\ NoPending
  /\ IF NotAdmin(uid)
     THEN /\ ev' = Plain("begin", uid, "AdminOnly")
          /\ UNCHANGED <<queue, file, tmp, active>>
     ELSE IF NoPlayers(Registered)
     THEN /\ ev' = Plain("begin", uid, "NoPlayers")
          /\ UNCHANGED <<queue, file, tmp, active>>
     ELSE \E shuffled \in Perms(Registered) :
          /\ queue' = shuffled
          /\ file' = BeginState(file, shuffled)
          /\ tmp' = NoFile
          /\ active' = TRUE
          /\ ev' = Event("begin", uid, "ok", <<>>, NoBuilding, "", 0, TurnNote(shuffled))
  /\ UNCHANGED <<players, gsel, pend, turns, calls>>

\* ------------------------------------------------- callbacks on the selection
\* callback "guess:<id>": remembers the building the next text is a guess for
SelectBuilding(uid, b) ==
  /\ NoPending
  /\ gsel' = [gsel EXCEPT ![uid] = b]
  /\ ev' = Event("select", uid, "ok", <<>>, b, "", 0, <<>>)
  /\ UNCHANGED <<players, queue, active, file, pend, turns, tmp, calls>>

\* any callback other than "guess"/"guess:<id>" drops the selection
DropSelection(sel, uid) == [sel EXCEPT ![uid] = NoBuilding]

\* ------------------------------------------------------------------- guess
\* word = upd.message.text.strip().upper()
GuessWord(text) == Upper(Strip(text))

\* faulty variant: the recorded word lower-cased before the comparison
IsDuplicate_LowerBug(dyn, word) ==
  dyn.last_attempt # NoAttempt /\ Lower(dyn.last_attempt.word) = word

\* last and last["word"].upper() == word
IsDuplicate(dyn, word) ==
  dyn.last_attempt # NoAttempt /\ Upper(dyn.last_attempt.word) = word

\* faulty variant: the closed flag not looked at
IsClosed_Never(dyn) == FALSE

\* dyn.get("is_closed")
IsClosed(dyn) == dyn.is_closed

\* word.upper() == building["target_word"].upper()
IsSolved(word, target) == Upper(word) = Upper(target)

\* faulty variant: the dictionary not consulted
InDictionary_Any(word) == TRUE

\* word.lower() in WORDS
InDictionary(word) == Lower(word) \in WORDS

\* the reply of handle_guess_word (with its decorator active_player) to a text
GuessReply(uid, text) ==
  LET word == GuessWord(text)
      b == gsel[uid]
  IN IF uid \notin Registered THEN "NotRegistered"
     ELSE IF ~active THEN "NotStarted"
     ELSE IF b = NoBuilding THEN "NoSelection"
     ELSE IF NotHead(queue, uid) THEN "NotYourTurn"
     ELSE IF Len(word) # WordLen THEN "InvalidLength"
     ELSE IF ~InDictionary(word) THEN "NotInDictionary"
     ELSE IF ~CfgHas(b) THEN "LocationNotFound"
     ELSE IF IsDuplicate(FindDyn(file.buildings, b), word) THEN "DuplicateGuess"
     ELSE IF IsClosed(FindDyn(file.buildings, b)) THEN "LocationClosed"
     ELSE "ok"

GuessPoints(word, b) == score_from(compare_word(word, CfgOf(b).target_word))

\* dyn after an accepted attempt
AttemptedDyn(dyn, uid, word, b) ==
  [dyn EXCEPT !.last_attempt =
                 [user_id |-> uid, username |-> players[uid].username, word |-> word],
              !.is_closed = IF IsSolved(word, CfgOf(b).target_word) THEN TRUE ELSE @]

\* player["score"] += points
AddScore(pl, uid, points) == [pl EXCEPT ![uid].score = @ + points]

\* the snapshot written by save_state(state) at the end of an accepted guess
SavedGuess(state, b, dyn) ==
  [state EXCEPT !.exists = TRUE, !.written = Chunks,
                !.buildings = ReplaceDyn(state.buildings, b, dyn)]

\* the replies given before the handler reads the selection and the text
EarlyGuessReplies == {"NotRegistered", "NotStarted", "NoSelection", "NotYourTurn"}

\* the selection after the handler: popped once the turn check has passed
GuessSelection(uid, res) ==
  IF res \in EarlyGuessReplies
  THEN gsel
  ELSE DropSelection(gsel, uid)

\* the whole handler, run without interruption (sequential dispatch)
HandleGuess(uid, text) ==
  LET res == GuessReply(uid, text)
      word == GuessWord(text)
      b == gsel[uid]
  IN /\ NoPending
     /\ gsel' = GuessSelection(uid, res)
     /\ IF res = "ok"
        THEN /\ turns < MaxTurns
             /\ players' = AddScore(players, uid, GuessPoints(word, b))
             /\ file' = SavedGuess(file, b,
                          AttemptedDyn(FindDyn(file.buildings, b), uid, word, b))
             /\ queue' = advance_queue(queue)
             /\ active' = (IF queue = <<>> THEN active ELSE TRUE)
             /\ tmp' = NoFile
             /\ turns' = turns + 1
             /\ ev' = Event("guess", uid, res, text, b, "", 0, TurnNote(queue'))
        ELSE /\ ev' = IF res \in EarlyGuessReplies
                      THEN Plain("guess", uid, res)
                      ELSE Event("guess", uid, res, text, b, "", 0, <<>>)
             /\ UNCHANGED <<players, queue, active, file, tmp, turns>>
     /\ UNCHANGED <<pend, calls>>

\* ------------------------------------------------------------------- steal
\* random.randint(1, 6)
Dice == 1..6
\* the faces next to the threshold and the two extremes
DiceSample == {1, 4, 5, 6}

\* faulty variant: a robbed score that stops at zero
StealScores_Floor(pl, thief, target, dice) ==
  IF dice >= 5
  THEN LET a == [pl EXCEPT ![thief].score = @ + 10]
       IN [a EXCEPT ![target].score = IF @ - 10 < 0 THEN 0 ELSE @ - 10]
  ELSE LET a == [pl EXCEPT ![thief].score = IF @ - 2 < 0 THEN 0 ELSE @ - 2]
       IN [a EXCEPT ![target].score = @ + 2]

\* the score changes of one robbery for die value dice
StealScores(pl, thief, target, dice) ==
  IF dice >= 5
  THEN LET a == [pl EXCEPT ![thief].score = @ + 10]
       IN [a EXCEPT ![target].score = @ - 10]
  ELSE LET a == [pl EXCEPT ![thief].score = @ - 2]
       IN [a EXCEPT ![target].score = @ + 2]

\* the reply of steal_handler (with active_player) to callback "steal:<target>"
StealReply(uid, target) ==
  IF uid \notin Registered THEN "NotRegistered"
  ELSE IF ~active THEN "NotStarted"
  ELSE IF target \notin Registered THEN "InvalidTarget"
  ELSE "ok"

\* callback "steal:<target>": callback_handler, then steal_handler; the die is
\* rolled once the target has been found
StealResolve(uid, target, faces) ==
  LET res == StealReply(uid, target)
  IN /\ NoPending
     /\ gsel' = DropSelection(gsel, uid)
     /\ IF res = "ok"
        THEN \E dice \in faces :
             /\ turns < MaxTurns
             /\ players' = StealScores(players, uid, target, dice)
             /\ queue' = advance_queue(queue)
             /\ active' = (IF queue = <<>> THEN active ELSE TRUE)
             /\ turns' = turns + 1
             /\ ev' = Event("steal", uid, res, <<>>, NoBuilding, target, dice,
                            <<[to |-> target, kind |-> "robbed"]>> \o TurnNote(queue'))
        ELSE /\ ev' = IF res = "InvalidTarget"
                      THEN Event("steal", uid, res, <<>>, NoBuilding, target, 0, <<>>)
                      ELSE Plain("steal", uid, res)
             /\ UNCHANGED <<players, queue, active, turns>>
     /\ UNCHANGED <<file, pend, tmp, calls>>

\* ------------------------------------------------------------------- reset
\* faulty variant: a reset that leaves the snapshot file in place
UnlinkState_Keep(f) == f

\* if STATE_PATH.is_file(): STATE_PATH.unlink()
UnlinkState(f) == NoFile

Reset(uid) ==
  /\ NoPending
  /\ IF NotAdmin(uid)
     THEN /\ ev' = Plain("reset", uid, "AdminOnly")
          /\ UNCHANGED <<players, queue, active, file>>
     ELSE /\ file' = UnlinkState(file)
          /\ players' = << >>
          /\ queue' = << >>
          /\ active' = FALSE
          /\ ev' = Plain("reset", uid, "ok")
  /\ UNCHANGED <<gsel, pend, turns, tmp, calls>>

\* ----------------------------------------------------------------- restart
\* the process stops and main() runs again: bot_data is rebuilt empty, the
\* user_data is gone, the snapshot file is what the last save left
Restart ==
  /\ NoPending
  /\ players' = << >>
  /\ queue' = << >>
  /\ active' = FALSE
  /\ gsel' = [u \in Users |-> NoBuilding]
  /\ ev' = Plain("restart", "", "ok")
  /\ UNCHANGED <<file, pend, turns, tmp, calls>>

\* -------------------------------------------------------------------- spec
\* every handler, run to completion one update at a time (the dispatch of
\* ApplicationBuilder().build(), which does not enable concurrent updates)
Next ==
  \/ \E uid \in Actors \cup {Admin} : Join(uid)
  \/ \E uid \in Actors \cup {Admin} : Begin(uid)
  \/ \E uid \in Actors, b \in CatalogIds : SelectBuilding(uid, b)
  \/ \E uid \in StaleUsers : SelectBuilding(uid, UnknownId)
  \/ \E uid \in Actors, text \in GuessTexts : HandleGuess(uid, text)
  \/ \E uid \in Actors, target \in Actors \cup {Admin} :
        StealResolve(uid, target, DiceSample)
  \/ \E uid \in Actors \cup {Admin} : Reset(uid)

Spec == Init /\ [][Next]_vars

\* ------------------------------------------------------ process restarts
\* the handlers of a session together with restarts of the process
NextRestart ==
  \/ \E uid \in Actors \cup {Admin} : Join(uid)
  \/ \E uid \in {Admin} : Begin(uid)
  \/ \E uid \in Actors, b \in CatalogIds : SelectBuilding(uid, b)
  \/ \E uid \in Actors, text \in GuessTexts : HandleGuess(uid, text)
  \/ \E uid \in {Admin} : Reset(uid)
  \/ Restart

SpecRestart == Init /\ [][NextRestart]_vars

\* ------------------------------------------------- three players, robbery
\* join, begin, robbery and reset with three users sending updates
NextRobbery ==
  \/ \E uid \in Users \cup {Admin} : Join(uid)
  \/ \E uid \in {Admin} : Begin(uid)
  \/ \E uid \in Users, target \in Users \cup {Admin} : StealResolve(uid, target, Dice)
  \/ \E uid \in {Admin} : Reset(uid)

SpecRobbery == Init /\ [][NextRobbery]_vars

\* ------------------------------------------- guess handlers that interleave
\* handle_guess_word suspends at "await reply(...)" after it has added the
\* points and built the attempt, and before save_state and advance_queue.
\* With concurrent dispatch another guess handler may run in between.

\* handle_guess_word up to its first await on the accepting path
GuessStart(uid, text) ==
  LET res == GuessReply(uid, text)
      word == GuessWord(text)
      b == gsel[uid]
  IN /\ gsel' = GuessSelection(uid, res)
     /\ IF res = "ok"
        THEN /\ turns + Cardinality(Pending) < MaxRaceTurns
             /\ players' = AddScore(players, uid, GuessPoints(word, b))
             /\ pend' = [u \in Pending \cup {uid} |->
                           IF u = uid
                           THEN [b |-> b, state |-> file,
                                 dyn |-> AttemptedDyn(FindDyn(file.buildings, b),
                                                      uid, word, b)]
                           ELSE pend[u]]
             /\ ev' = Event("guess", uid, res, text, b, "", 0, <<>>)
        ELSE /\ ev' = IF res \in EarlyGuessReplies
                      THEN Plain("guess", uid, res)
                      ELSE Event("guess", uid, res, text, b, "", 0, <<>>)
             /\ UNCHANGED <<players, pend>>
     /\ UNCHANGED <<queue, active, file, turns, tmp, calls>>

\* handle_guess_word after the await: save_state(state), advance_queue(ctx)
GuessCommit(uid) ==
  /\ uid \in Pending
  /\ file' = SavedGuess(pend[uid].state, pend[uid].b, pend[uid].dyn)
  /\ queue' = advance_queue(queue)
  /\ active' = (IF queue = <<>> THEN active ELSE TRUE)
  /\ turns' = turns + 1
  /\ pend' = [u \in Pending \ {uid} |-> pend[u]]
  /\ ev' = Event("commit", uid, "ok", <<>>, pend[uid].b, "", 0, TurnNote(queue'))
  /\ tmp' = NoFile
  /\ UNCHANGED <<players, gsel, calls>>

\* the other updates are handled while no guess handler is suspended
NextConc ==
  \/ \E uid \in Actors \cup {Admin} : Join(uid)
  \/ \E uid \in {Admin} : Begin(uid)
  \/ \E uid \in Actors, b \in CatalogIds : SelectBuilding(uid, b)
  \/ \E uid \in Actors, text \in GuessTexts : GuessStart(uid, text)
  \/ \E uid \in Actors : GuessCommit(uid)

SpecConc == Init /\ [][NextConc]_vars

\* ------------------------------------------------------------- score table
\* position of x in the sequence s of distinct elements
PosIn(s, x) == CHOOSE i \in 1..Len(s) : s[i] = x

\* sorted(players.values(), key=score, reverse=True): a stable sort of the
\* players taken in the order `order`
SortedPlayers(order) ==
  CHOOSE r \in Perms({order[i] : i \in 1..Len(order)}) :
    \A i, j \in 1..Len(r) :
       i < j =>
         \/ players[r[i]].score > players[r[j]].score
         \/ /\ players[r[i]].score = players[r[j]].score
            /\ PosIn(order, r[i]) < PosIn(order, r[j])

\* cur_uid = queue[0] if state_game_active else None
CurUid == IF active THEN queue[1] ELSE ""

\* the lines of format_score_table: name, score and the marker, set when
\* cur_uid and p["username"] == players[cur_uid]["username"]
ScoreRows(order) ==
  LET sorted == SortedPlayers(order)
  IN [i \in 1..Len(sorted) |->
        [username |-> players[sorted[i]].username,
         score |-> players[sorted[i]].score,
         marker |-> (CurUid # "" /\ players[sorted[i]].username
                                      = players[CurUid].username)]]

\* command /score.  players.values() iterates in the order of the joins,
\* which the registry of the model does not keep: every order is explored.
Score(uid) ==
  /\ NoPending
  /\ IF ~active /\ uid # Admin
     THEN ev' = Shown("score", uid, "NotStarted", <<>>)
     ELSE IF Registered = {}
     THEN ev' = Shown("score", uid, "NobodyPlays", <<>>)
     ELSE \E order \in Perms(Registered) :
             ev' = Shown("score", uid, "ok", ScoreRows(order))
  /\ UNCHANGED <<players, queue, active, gsel, file, pend, turns, tmp, calls>>

\* three users, two of them with the same display name, and the score table
NextBoard ==
  \/ \E uid \in Users : Join(uid)
  \/ \E uid \in {Admin} : Begin(uid)
  \/ \E uid \in Users, target \in Users : StealResolve(uid, target, DiceSample)
  \/ \E uid \in Users \cup {Admin} : Score(uid)
  \/ \E uid \in {Admin} : Reset(uid)

SpecBoard == Init /\ [][NextBoard]_vars

\* ------------------------------------------------------- menu, steal list
\* an inline button: its callback data, split at the colon
Button(data, arg) == [data |-> data, arg |-> arg]

\* is_my_turn = queue and queue[0] == uid
IsMyTurn(uid) == queue # <<>> /\ queue[1] = uid

\* can_steal = is_my_turn and others and my_balance >= 2 and rich_other
CanSteal(uid) ==
  /\ IsMyTurn(uid)
  /\ \E pl \in Registered : pl # uid
  /\ players[uid].score >= 2
  /\ \E pid \in Registered : pid # uid /\ players[pid].score >= 10

\* the keyboard of menu for a registered player of a started game
MenuRows(uid) ==
  (IF IsMyTurn(uid)
   THEN <<Button("guess", "")>>
          \o (IF CanSteal(uid) THEN <<Button("steal", "")>> ELSE <<>>)
   ELSE <<Button("wait", "")>>)
  \o <<Button("show_board", ""), Button("score", "")>>

\* command /menu
Menu(uid) ==
  /\ NoPending
  /\ IF uid = Admin
     THEN ev' = Shown("menu", uid, "admin",
                      <<Button("show_board", ""), Button("score", "")>>)
     ELSE IF uid \notin Registered
     THEN ev' = Shown("menu", uid, "NotRegistered", <<>>)
     ELSE IF ~active
     THEN ev' = Shown("menu", uid, "NotStarted", <<>>)
     ELSE ev' = Shown("menu", uid, "ok", MenuRows(uid))
  /\ UNCHANGED <<players, queue, active, gsel, file, pend, turns, tmp, calls>>

\* the keyboard of steal_target_kb: every other player, taken in the order
\* `order` of the registry, then the way back to the menu
StealTargetRows(order) ==
  [i \in 1..Len(order) |-> Button("steal", order[i])] \o <<Button("menu", "")>>

\* callback "steal": callback_handler, then steal_handler up to its first
\* return, with steal_target_kb
StealRequest(uid) ==
  /\ NoPending
  /\ gsel' = DropSelection(gsel, uid)
  /\ IF uid \notin Registered
     THEN ev' = Shown("steal_request", uid, "NotRegistered", <<>>)
     ELSE IF ~active
     THEN ev' = Shown("steal_request", uid, "NotStarted", <<>>)
     ELSE IF NotHead(queue, uid)
     THEN ev' = Shown("steal_request", uid, "NotYourTurn", <<>>)
     ELSE \E order \in Perms(Registered \ {uid}) :
             ev' = Shown("steal_request", uid, "ok", StealTargetRows(order))
  /\ UNCHANGED <<players, queue, active, file, pend, turns, tmp, calls>>

\* two players who guess, open the menu and ask for the list of victims
NextMenus ==
  \/ \E uid \in Actors : Join(uid)
  \/ \E uid \in {Admin} : Begin(uid)
  \/ \E uid \in Actors, b \in CatalogIds : SelectBuilding(uid, b)
  \/ \E uid \in Actors, text \in GuessTexts : HandleGuess(uid, text)
  \/ \E uid \in Actors \cup {Admin} : Menu(uid)
  \/ \E uid \in Actors : StealRequest(uid)

SpecMenus == Init /\ [][NextMenus]_vars

\* ------------------------------------ a snapshot older than the catalog
\* snapshots left by a game played when the catalog held its first location
\* only: that location untouched, or solved by a player of that game
OlderSnapshots ==
  {[exists |-> TRUE, game_state |-> "active", queue |-> <<"u1">>,
    written |-> Chunks,
    buildings |-> <<[id |-> CfgBuildings[1].id, last_attempt |-> NoAttempt,
                     is_closed |-> FALSE]>>],
   [exists |-> TRUE, game_state |-> "active", queue |-> <<"u1">>,
    written |-> Chunks,
    buildings |-> <<[id |-> CfgBuildings[1].id,
                     last_attempt |-> [user_id |-> "u1", username |-> Username("u1"),
                                       word |-> Upper(CfgBuildings[1].target_word)],
                     is_closed |-> TRUE]>>]}

\* main() started next to such a snapshot: bot_data is built empty and the
\* file is left as it is
InitUpgrade ==
  /\ players = << >>
  /\ queue = << >>
  /\ active = FALSE
  /\ gsel = [u \in Users |-> NoBuilding]
  /\ file \in OlderSnapshots
  /\ pend = << >>
  /\ turns = 0
  /\ ev = Plain("init", "", "ok")
  /\ tmp = NoFile
  /\ sv = NoSave
  /\ cw = NoCompare
  /\ rot = NoRotation

NextUpgrade ==
  \/ \E uid \in Actors : Join(uid)
  \/ \E uid \in {Admin} : Begin(uid)
  \/ \E uid \in Actors, b \in CatalogIds : SelectBuilding(uid, b)
  \/ \E uid \in Actors, text \in GuessTexts : HandleGuess(uid, text)

SpecUpgrade == InitUpgrade /\ [][NextUpgrade]_vars

\* --------------------------------------------------- save_state that raises
\* what a save_state(state) that raised an OSError may leave under the
\* temporary name: what was there (open failed), any prefix of the new
\* content (a write failed), all of it (the replace failed)
FailedSaveTmp(state) ==
  {tmp} \cup {[state EXCEPT !.written = w] : w \in 0..Chunks}

\* handle_guess_word on an accepted guess when save_state raises: the points
\* are added and the reply is sent before the call, the exception leaves the
\* handler before advance_queue
GuessSaveFails(uid, text) ==
  LET word == GuessWord(text)
      b == gsel[uid]
  IN /\ NoPending
     /\ GuessReply(uid, text) = "ok"
     /\ turns < MaxTurns
     /\ gsel' = DropSelection(gsel, uid)
     /\ players' = AddScore(players, uid, GuessPoints(word, b))
     /\ tmp' \in FailedSaveTmp(
                  SavedGuess(file, b, AttemptedDyn(FindDyn(file.buildings, b),
                                                   uid, word, b)))
     /\ turns' = turns + 1
     /\ ev' = Event("guess", uid, "PersistenceFailure", text, b, "", 0, <<>>)
     /\ UNCHANGED <<queue, active, file, pend, calls>>

\* begin by the administrator when save_state raises: the queue has been
\* replaced by the shuffle before the call, state_game_active is set after it
BeginSaveFails(uid) ==
  /\ NoPending
  /\ uid = Admin
  /\ Registered # {}
  /\ \E shuffled \in Perms(Registered) :
       /\ queue' = shuffled
       /\ tmp' \in FailedSaveTmp(BeginState(file, shuffled))
  /\ ev' = Plain("begin", uid, "PersistenceFailure")
  /\ UNCHANGED <<players, active, gsel, file, pend, turns, calls>>

\* the handlers of a session on a storage whose writes may fail; the guesses
\* are made at the first location of the catalog
NextSaveFails ==
  \/ \E uid \in Actors : Join(uid)
  \/ \E uid \in {Admin} : Begin(uid)
  \/ \E uid \in {Admin} : BeginSaveFails(uid)
  \/ \E uid \in Actors, b \in {CfgBuildings[1].id} : SelectBuilding(uid, b)
  \/ \E uid \in Actors, text \in GuessTexts : HandleGuess(uid, text)
  \/ \E uid \in Actors, text \in GuessTexts : GuessSaveFails(uid, text)

SpecSaveFails == Init /\ [][NextSaveFails]_vars

\* ------------------------------------------------- save_state, step by step
\* the state dicts handed to save_state: what begin and an accepted guess
\* write for one or two players
SolvedBuildings ==
  [i \in 1..Len(FreshBuildings) |->
     IF i = 1
     THEN [id |-> FreshBuildings[1].id,
           last_attempt |-> [user_id |-> "u1", username |-> Username("u1"),
                             word |-> Upper(CfgBuildings[1].target_word)],
           is_closed |-> TRUE]
     ELSE FreshBuildings[i]]

Snapshots ==
  {[exists |-> TRUE, buildings |-> bs, queue |-> q, game_state |-> "active",
    written |-> Chunks] :
     bs \in {FreshBuildings, SolvedBuildings},
     q \in Perms(Actors) \cup Perms({"u1"})}

\* faulty variant: the snapshot written straight to STATE_PATH
SavePath_Canonical == "state"

\* tmp = STATE_PATH.with_suffix(".tmp"): the file save_state writes to
SavePath == "tmp"

\* the file save_state is writing to
SaveFile == IF SavePath = "tmp" THEN tmp ELSE file

\* a handler calls save_state(state)
SaveCall(state) ==
  /\ sv.pc = "idle"
  /\ sv' = [pc |-> "open", state |-> state]
  /\ ev' = Plain("save_state", "", "called")
  /\ UNCHANGED <<players, queue, active, gsel, file, pend, turns, tmp, cw, rot>>

\* tmp.open("w"): the file is created, or emptied if it was there
SaveOpen ==
  /\ sv.pc = "open"
  /\ IF SavePath = "tmp"
     THEN tmp' = [sv.state EXCEPT !.written = 0] /\ UNCHANGED file
     ELSE file' = [sv.state EXCEPT !.written = 0] /\ UNCHANGED tmp
  /\ sv' = [sv EXCEPT !.pc = "dump"]
  /\ ev' = Plain("save_state", "", "opened")
  /\ UNCHANGED <<players, queue, active, gsel, pend, turns, cw, rot>>

\* json.dump(state, fp): one more piece reaches the file
SaveDump ==
  /\ sv.pc = "dump"
  /\ SaveFile.written < Chunks
  /\ IF SavePath = "tmp"
     THEN tmp' = [tmp EXCEPT !.written = @ + 1] /\ UNCHANGED file
     ELSE file' = [file EXCEPT !.written = @ + 1] /\ UNCHANGED tmp
  /\ ev' = Plain("save_state", "", "written")
  /\ UNCHANGED <<players, queue, active, gsel, pend, turns, sv, cw, rot>>

\* tmp.replace(STATE_PATH), once json.dump has returned and the file object
\* has been released: the temporary file takes the canonical name in one step
SaveReplace ==
  /\ sv.pc = "dump"
  /\ SaveFile.written = Chunks
  /\ IF SavePath = "tmp"
     THEN file' = tmp /\ tmp' = NoFile
     ELSE UNCHANGED <<file, tmp>>
  /\ sv' = NoSave
  /\ ev' = Plain("save_state", "", "replaced")
  /\ UNCHANGED <<players, queue, active, gsel, pend, turns, cw, rot>>

\* the process is killed, at any step of a save or between two saves; the
\* files stay as they are
Crash ==
  /\ sv' = NoSave
  /\ ev' = Plain("crash", "", IF sv.pc = "idle" THEN "idle" ELSE "saving")
  /\ UNCHANGED <<players, queue, active, gsel, file, pend, turns, tmp, cw, rot>>

\* STATE_PATH.unlink() of reset_game
Unlink ==
  /\ sv.pc = "idle"
  /\ file.exists
  /\ file' = UnlinkState(file)
  /\ ev' = Plain("unlink", "", "ok")
  /\ UNCHANGED <<players, queue, active, gsel, pend, turns, tmp, sv, cw, rot>>

NextSave ==
  \/ \E state \in Snapshots : SaveCall(state)
  \/ SaveOpen
  \/ SaveDump
  \/ SaveReplace
  \/ Crash
  \/ Unlink

SpecSave == Init /\ [][NextSave]_vars

\* ------------------------------------------------- compare_word on its own
\* letters of the words compared: three letters, one of them in both cases
CompareLetters == {"A", "B", "C", "a"}

CompareWords(n) == [1..n -> CompareLetters]

InitCompare ==
  /\ players = << >>
  /\ queue = << >>
  /\ active = FALSE
  /\ gsel = [u \in Users |-> NoBuilding]
  /\ file = NoFile
  /\ pend = << >>
  /\ turns = 0
  /\ ev = Plain("init", "", "ok")
  /\ tmp = NoFile
  /\ sv = NoSave
  /\ rot = NoRotation
  /\ \E n \in 0..MaxWordLen :
       \E g \in CompareWords(n), t \in CompareWords(n) :
          cw = [guess |-> g, target |-> t, res |-> <<>>, done |-> FALSE]

\* compare_word(guess, target) is called and returns
Compare ==
  /\ ~cw.done
  /\ cw' = [cw EXCEPT !.res = compare_word(cw.guess, cw.target), !.done = TRUE]
  /\ ev' = Plain("compare_word", "", "ok")
  /\ UNCHANGED <<players, queue, active, gsel, file, pend, turns, tmp, sv, rot>>

NextCompare == Compare

SpecCompare == InitCompare /\ [][NextCompare]_vars

\* ------------------------------------------------ advance_queue on its own
\* the queues of distinct users, in every order
DistinctQueues == UNION {Perms(S) : S \in SUBSET Users}

\* a session with the given queue: its members are the registered players;
\* an empty session is not started
InitRotate ==
  /\ queue \in DistinctQueues
  /\ players = [u \in {queue[i] : i \in 1..Len(queue)} |->
                  [username |-> Username(u), score |-> 0]]
  /\ active \in (IF queue = <<>> THEN {FALSE} ELSE BOOLEAN)
  /\ gsel = [u \in Users |-> NoBuilding]
  /\ file = NoFile
  /\ pend = << >>
  /\ turns = 0
  /\ ev = Plain("init", "", "ok")
  /\ tmp = NoFile
  /\ sv = NoSave
  /\ cw = NoCompare
  /\ rot = [orig |-> queue, n |-> 0]

\* advance_queue(ctx) is called and returns
AdvanceQueue ==
  /\ rot.n < MaxAdvances
  /\ queue' = advance_queue(queue)
  /\ active' = (IF queue = <<>> THEN active ELSE TRUE)
  /\ rot' = [rot EXCEPT !.n = @ + 1]
  /\ ev' = Event("advance_queue", "", "ok", <<>>, NoBuilding, "", 0, TurnNote(queue'))
  /\ UNCHANGED <<players, gsel, file, pend, turns, tmp, sv, cw>>

NextRotate == AdvanceQueue

SpecRotate == InitRotate /\ [][NextRotate]_vars

\* ================================================================== claims
IsPerm(q, S) ==
  /\ Len(q) = Cardinality(S)
  /\ \A u \in S : \E i \in 1..Len(q) : q[i] = u
  /\ \A i \in 1..Len(q) : q[i] \in S

\* the step is a guess that had an effect on the session
GuessTookEffect ==
  /\ ev'.op = "guess"
  /\ (players' # players \/ queue' # queue \/ file' # file)

\* C1: a guess has an effect (points, attempt record, queue advance) only if,
\* when it is submitted, the session is active and the sender is registered
\* and is the head of the queue.
C1_GuessOnlyByHead ==
  [][GuessTookEffect =>
       /\ active
       /\ ev'.uid \in Registered
       /\ queue # <<>>
       /\ queue[1] = ev'.uid]_vars

\* C1 witness: a guess has been accepted while two players are registered.
C1_Witness ==
  /\ ev.op = "guess"
  /\ ev.res = "ok"
  /\ Cardinality(Registered) = 2

\* C2 (as claimed): a robbery requested by a player who is not the head of the
\* queue changes no score and does not advance the queue.
C2_StealOnlyByHead ==
  [][(ev'.op = "steal" /\ ev'.uid \in Registered /\ queue # <<>> /\ queue[1] # ev'.uid) =>
       (players' = players /\ queue' = queue)]_vars

\* C3: of the guess handlers of different players that are in flight for the
\* same turn, only the one of the queue head is accepted: while an accepted
\* guess waits for its queue advance no second guess is accepted (never two
\* handlers between "points added" and "queue advanced"), a guess of another
\* registered player with a selection made in that window is answered
\* NotYourTurn and changes nothing, and the accepted guess advances the queue
\* exactly once, moving its sender from the head to the tail.
C3_OneGuessPerTurn ==
  /\ [](Cardinality(Pending) <= 1)
  /\ [][(ev'.op = "guess" /\ Pending # {} /\ ev'.uid \notin Pending
           /\ ev'.uid \in Registered /\ gsel[ev'.uid] # NoBuilding) =>
          /\ ev'.res = "NotYourTurn"
          /\ players' = players
          /\ queue' = queue
          /\ file' = file
          /\ Pending' = Pending]_vars
  /\ [][ev'.op = "commit" =>
          /\ queue # <<>>
          /\ Head(queue) = ev'.uid
          /\ queue' = Tail(queue) \o <<ev'.uid>>
          /\ turns' = turns + 1
          /\ players' = players]_vars
  /\ [][queue' # queue => ev'.op \in {"commit", "join", "begin"}]_vars

\* C3 witness: while the head's accepted guess is suspended at its await, the
\* other player's guess has been answered NotYourTurn.
C3_Witness ==
  /\ Pending # {}
  /\ ev.op = "guess"
  /\ ev.res = "NotYourTurn"
  /\ ev.uid \notin Pending
  /\ gsel[ev.uid] # NoBuilding

\* ---------------------------------------------------------------- C4, C5
ClosedIn(f, b) == IsClosed(FindDyn(f.buildings, b))

LastWord(f, b) == FindDyn(f.buildings, b).last_attempt.word

\* the step handles a guess at catalog location b that has passed the turn,
\* length and dictionary checks
ValidGuessAt(b) ==
  /\ ev'.op = "guess"
  /\ ev'.b = b
  /\ CfgHas(b)
  /\ Len(GuessWord(ev'.text)) = WordLen
  /\ Lower(GuessWord(ev'.text)) \in WORDS

SessionUnchanged ==
  /\ players' = players
  /\ queue' = queue
  /\ active' = active
  /\ file' = file

\* C4 (as claimed): every guess at a closed location, for any word, is
\* rejected with LocationClosed and changes nothing.
C4_ClosedRejectsAll ==
  [][\A b \in CatalogIds :
       (ValidGuessAt(b) /\ ClosedIn(file, b)) =>
          (ev'.res = "LocationClosed" /\ SessionUnchanged)]_vars

\* C4 (amended): an accepted guess equal to the secret closes the location; a
\* closed location stays closed until an administrator reset; and every later
\* guess at it is rejected without any change of the session, with
\* DuplicateGuess when the word is the secret again (it is the location's last
\* recorded attempt, and that check comes first) and with LocationClosed for
\* any other word.
C4_ClosedStaysClosed ==
  /\ [][\A b \in CatalogIds :
          (ValidGuessAt(b) /\ ev'.res = "ok"
             /\ Upper(GuessWord(ev'.text)) = Upper(CfgOf(b).target_word))
          => ClosedIn(file', b)]_vars
  /\ [][(file' # file /\ ~(ev'.op = "reset" /\ ev'.res = "ok")) =>
          \A b \in CatalogIds : ClosedIn(file, b) => ClosedIn(file', b)]_vars
  /\ [][\A b \in CatalogIds :
          (ValidGuessAt(b) /\ ClosedIn(file, b)) =>
             /\ SessionUnchanged
             /\ ev'.res = (IF Upper(GuessWord(ev'.text)) = Upper(CfgOf(b).target_word)
                           THEN "DuplicateGuess" ELSE "LocationClosed")]_vars

\* C4 witness: a guess by the player who did not solve the location has been
\* rejected as LocationClosed at a closed location.
C4_Witness ==
  /\ ev.op = "guess"
  /\ ev.res = "LocationClosed"
  /\ ClosedIn(file, ev.b)
  /\ LastWord(file, ev.b) # <<>>
  /\ FindDyn(file.buildings, ev.b).last_attempt.user_id # ev.uid

\* C5: a guess by the turn holder whose word equals, whatever the case, the
\* word of the location's last recorded attempt is rejected with
\* DuplicateGuess; scores, attempt records, closed flags and queue stay as
\* they are.
C5_DuplicateRejected ==
  [][(/\ ev'.op = "guess"
      /\ active
      /\ ev'.uid \in Registered
      /\ queue # <<>>
      /\ queue[1] = ev'.uid
      /\ gsel[ev'.uid] \in CatalogIds
      /\ LastWord(file, gsel[ev'.uid]) # <<>>
      /\ Lower(LastWord(file, gsel[ev'.uid])) = Lower(Strip(ev'.text)))
     => (ev'.res = "DuplicateGuess" /\ SessionUnchanged)]_vars

\* C5 witness: a duplicate was rejected at a location that is still open, sent
\* by another player than the one who made the recorded attempt.
C5_Witness ==
  /\ ev.op = "guess"
  /\ ev.res = "DuplicateGuess"
  /\ ~ClosedIn(file, ev.b)
  /\ FindDyn(file.buildings, ev.b).last_attempt.user_id # ev.uid

\* -------------------------------------------------------------------- C6
\* the positions where guess and secret carry the same letter, whatever the case
ExactPos(g, t) == {i \in 1..Len(g) : UpperCh(g[i]) = UpperCh(t[i])}

CountOf(w, pos, c) == Cardinality({i \in pos : UpperCh(w[i]) = c})

Min(a, b) == IF a < b THEN a ELSE b

RECURSIVE SumOver(_, _, _, _)
SumOver(letters, g, t, pos) ==
  IF letters = {} THEN 0
  ELSE LET c == CHOOSE x \in letters : TRUE
       IN Min(CountOf(g, pos, c), CountOf(t, pos, c)) + SumOver(letters \ {c}, g, t, pos)

\* Partial positions: per letter, as many as guess and secret share outside
\* the Exact positions
NumPartial(g, t) ==
  SumOver(Uppers, g, t, (1..Len(g)) \ ExactPos(g, t))

NumExact(g, t) == Cardinality(ExactPos(g, t))

\* C6: an accepted guess by the turn holder adds 10 per Exact and 5 per
\* Partial position to the sender's score and to no other score, records the
\* sender and the word as the location's attempt, and rotates the queue left
\* by one.
C6_AcceptedGuessEffect ==
  [][(ev'.op = "guess" /\ ev'.res = "ok") =>
       LET u == ev'.uid
           b == gsel[u]
           w == GuessWord(ev'.text)
           t == CfgOf(b).target_word
       IN /\ b = ev'.b
          /\ DOMAIN players' = DOMAIN players
          /\ players'[u].score =
               players[u].score + 10 * NumExact(w, t) + 5 * NumPartial(w, t)
          /\ \A v \in Registered \ {u} : players'[v] = players[v]
          /\ FindDyn(file'.buildings, b).last_attempt =
               [user_id |-> u, username |-> Username(u), word |-> w]
          /\ \A c \in CatalogIds \ {b} :
               FindDyn(file'.buildings, c) = FindDyn(file.buildings, c)
          /\ queue # <<>>
          /\ queue' = Tail(queue) \o <<Head(queue)>>]_vars

\* C6 witness: an accepted guess that earned Exact and Partial points without
\* solving the location, with two players in the queue.
C6_Witness ==
  /\ ev.op = "guess"
  /\ ev.res = "ok"
  /\ Len(queue) = 2
  /\ ~ClosedIn(file, ev.b)
  /\ players[ev.uid].score = 30

\* -------------------------------------------------------------------- C7
RECURSIVE TotalScore(_, _)
TotalScore(pl, S) ==
  IF S = {} THEN 0
  ELSE LET u == CHOOSE x \in S : TRUE
       IN pl[u].score + TotalScore(pl, S \ {u})

\* C7: a resolved robbery between two different players moves 10 points from
\* the victim to the thief when the die shows 5 or 6 and 2 points from the
\* thief to the victim otherwise; no other score changes, the total of all
\* scores is kept, and nothing clamps a score at zero.
C7_StealZeroSum ==
  [][(ev'.op = "steal" /\ ev'.res = "ok" /\ ev'.target # ev'.uid) =>
       LET th == ev'.uid
           vi == ev'.target
           d == ev'.dice
       IN /\ d \in 1..6
          /\ DOMAIN players' = DOMAIN players
          /\ players'[th].score = players[th].score + (IF d >= 5 THEN 10 ELSE 0 - 2)
          /\ players'[vi].score = players[vi].score + (IF d >= 5 THEN 0 - 10 ELSE 2)
          /\ \A o \in Registered \ {th, vi} : players'[o] = players[o]
          /\ TotalScore(players', Registered) = TotalScore(players, Registered)]_vars

\* C7 witness: with three players registered a robbery has been resolved, one
\* of the two parties is left with a negative score and the third player is
\* not at zero.
C7_Witness ==
  /\ ev.op = "steal"
  /\ ev.res = "ok"
  /\ ev.target # ev.uid
  /\ Cardinality(Registered) = 3
  /\ players[ev.target].score < 0
  /\ \E o \in Registered \ {ev.uid, ev.target} : players[o].score # 0

\* -------------------------------------------------------------------- C8
\* C8: while the session is active the queue is a permutation of the
\* registered players.
C8_QueueIsPermutation == active => IsPerm(queue, Registered)

\* C8 witness: a player has joined an active session after a queue advance.
C8_Witness ==
  /\ active
  /\ turns > 0
  /\ ev.op = "join"
  /\ ev.res = "ok"
  /\ Cardinality(Registered) = 2

\* -------------------------------------------------------------------- C9
\* C9 (as claimed): while the session is not started the queue is empty.
C9_QueueEmptyBeforeBegin == ~active => queue = <<>>

\* C9 (amended): join registers the player with score 0 and appends the
\* player to the tail of the queue, also before begin; so while the session is
\* not started the queue holds the registered players in the order in which
\* they joined, and begin replaces it by a shuffle of the registered players.
C9_JoinAppendsToQueue ==
  /\ [](~active => IsPerm(queue, Registered))
  /\ [][(ev'.op = "join" /\ ev'.res = "ok") =>
          /\ ev'.uid \notin Registered
          /\ Registered' = Registered \cup {ev'.uid}
          /\ players'[ev'.uid].score = 0
          /\ \A v \in Registered : players'[v] = players[v]
          /\ queue' = Append(queue, ev'.uid)]_vars
  /\ [][(ev'.op = "begin" /\ ev'.res = "ok") =>
          (IsPerm(queue', Registered) /\ players' = players)]_vars

\* C9 witness: two players have joined a session that is not started.
C9_Witness ==
  /\ ~active
  /\ ev.op = "join"
  /\ ev.res = "ok"
  /\ Len(queue) = 2

\* ------------------------------------------------------------------- C10
\* C10 (as claimed): a restart of the process of an active session whose
\* snapshot has been saved reconstructs the session from the snapshot:
\* registered players, scores, queue order and status are what they were.
C10_RestartRestoresSession ==
  [][(ev'.op = "restart" /\ file.exists /\ active) =>
       (players' = players /\ queue' = queue /\ active' = active)]_vars

\* ------------------------------------------------------------------- C11
\* C11 (as claimed): after an accepted guess or a resolved robbery the
\* snapshot file exists and its queue is the in-memory queue after the
\* rotation, same order and same head.
C11_SnapshotEqualsMemory ==
  [][(ev'.op \in {"guess", "steal"} /\ ev'.res = "ok") =>
       (file'.exists /\ file'.queue = queue')]_vars

\* ------------------------------------------------------------------- C12
\* C12 (as claimed): when save_state fails in a guess or in begin, the
\* in-memory session (scores, queue, status) and the snapshot are what they
\* were before the operation; the points of the guess are not kept.
C12_FailedSaveDiscarded ==
  [][ev'.res = "PersistenceFailure" => SessionUnchanged]_vars

\* ------------------------------------------------------------------- C13
\* a complete snapshot: every piece of its content is in the file
Complete(f) == f.exists /\ f.written = Chunks

\* C13: at every point of a save, and after a crash at any step of it, the
\* file under the canonical name is absent or holds a complete snapshot; it
\* changes only by the replace, which puts the complete new snapshot there in
\* one step, or by the unlink of a reset; the pieces are written to the
\* temporary file.
C13_SnapshotNeverPartial ==
  /\ [](file = NoFile \/ Complete(file))
  /\ [][file' # file =>
          \/ (ev'.res = "replaced" /\ file' = sv.state /\ Complete(file'))
          \/ (ev'.op = "unlink" /\ file' = NoFile)]_vars
  /\ [][ev'.res = "opened" =>
          (file' = file /\ tmp' = [sv.state EXCEPT !.written = 0])]_vars
  /\ [][ev'.res = "written" =>
          (file' = file /\ tmp' = [tmp EXCEPT !.written = @ + 1])]_vars

\* C13 witness: the process was killed in the middle of a save that was to
\* replace an older snapshot: the temporary file holds a part of the new
\* content, the canonical file the whole older one.
C13_Witness ==
  /\ ev.op = "crash"
  /\ ev.res = "saving"
  /\ tmp.exists
  /\ tmp.written > 0
  /\ tmp.written < Chunks
  /\ Complete(file)
  /\ file.queue # tmp.queue

\* ------------------------------------------------------------------- C14
\* C14: begin sent by the administrator while no player is registered is
\* answered NoPlayers; the session is not started before and after, and the
\* registry, the queue, the snapshot file and the temporary file are left as
\* they are.
C14_BeginWithoutPlayers ==
  [][(ev'.op = "begin" /\ ev'.uid = Admin /\ Registered = {}) =>
       /\ ev'.res = "NoPlayers"
       /\ ~active
       /\ ~active'
       /\ players' = players
       /\ queue' = queue
       /\ file' = file
       /\ tmp' = tmp]_vars

\* C14 witness: the administrator's begin was answered NoPlayers in a session
\* that had been played and reset.
C14_Witness ==
  /\ ev.op = "begin"
  /\ ev.uid = Admin
  /\ ev.res = "NoPlayers"
  /\ turns > 0

\* ------------------------------------------------------------------- C15
\* C15: a reset sent by the administrator empties the registry and the
\* queue, sets the status to not started and removes the snapshot file; while
\* the session is not started there is no snapshot file, so the begin that
\* starts it again finds no location state: every location is open and
\* without attempt.
C15_ResetClearsAll ==
  /\ [](~active => ~file.exists)
  /\ [][(ev'.op = "reset" /\ ev'.uid = Admin) =>
          /\ ev'.res = "ok"
          /\ players' = << >>
          /\ queue' = << >>
          /\ ~active'
          /\ file' = NoFile]_vars
  /\ [][(ev'.op = "begin" /\ ev'.res = "ok" /\ ~active) =>
          file'.buildings = FreshBuildings]_vars

\* C15 witness: the administrator has reset a session in which moves had been
\* made.
C15_Witness ==
  /\ ev.op = "reset"
  /\ ev.res = "ok"
  /\ turns = MaxTurns
  /\ ~file.exists
  /\ Registered = {}

\* ------------------------------------------------------------------- C16
\* C16: the status becomes active only by a begin of the administrator with
\* at least one registered player, and not started only by a reset of the
\* administrator; no join, guess or robbery (with its queue advance) changes
\* it; a begin or reset sent by anyone else is answered AdminOnly and changes
\* nothing of the session.
C16_StatusTransitions ==
  /\ [][active' # active =>
          /\ ev'.uid = Admin
          /\ ev'.res = "ok"
          /\ \/ (~active /\ ev'.op = "begin" /\ Registered # {})
             \/ (active /\ ev'.op = "reset")]_vars
  /\ [][(ev'.op \in {"begin", "reset"} /\ ev'.uid # Admin) =>
          (ev'.res = "AdminOnly" /\ SessionUnchanged)]_vars

\* C16 witness: a registered player's reset was refused in an active session
\* after a move.
C16_Witness ==
  /\ ev.op = "reset"
  /\ ev.res = "AdminOnly"
  /\ ev.uid \in Registered
  /\ active
  /\ turns > 0

\* ------------------------------------------------------------------- C17
\* C17: the administrator is never a key of the registry nor a member of the
\* queue; a join sent by the administrator is answered AdminCannotJoin and
\* leaves registry and queue as they are.
C17_AdminNeverPlays ==
  /\ [](Admin \notin Registered /\ ~InSeq(Admin, queue))
  /\ [][(ev'.op = "join" /\ ev'.uid = Admin) =>
          /\ ev'.res = "AdminCannotJoin"
          /\ players' = players
          /\ queue' = queue]_vars

\* C17 witness: the administrator's join was refused in an active session
\* with players.
C17_Witness ==
  /\ ev.op = "join"
  /\ ev.uid = Admin
  /\ ev.res = "AdminCannotJoin"
  /\ active
  /\ Cardinality(Registered) >= 2

\* ------------------------------------------------------------------- C18
\* a precondition of a guess by uid with the given text at the selected
\* location fails in the current state
GuessPreconditionFails(uid, text) ==
  \/ ~active
  \/ uid \notin Registered
  \/ queue = <<>>
  \/ queue[1] # uid
  \/ Len(Upper(Strip(text))) # WordLen
  \/ Lower(Strip(text)) \notin WORDS
  \/ gsel[uid] \notin CatalogIds
  \/ ClosedIn(file, gsel[uid])

\* C18: a guess that is rejected, for whatever reason, leaves scores, queue,
\* status, every location's closed flag and attempt record and the snapshot
\* file as they are; and a guess is rejected whenever the session is not
\* started, the sender is not registered or not the queue head, the word has
\* not five letters or is not in the dictionary, or the location is unknown
\* or closed.
C18_RejectedGuessNoEffect ==
  /\ [][(ev'.op = "guess" /\ ev'.res # "ok") => SessionUnchanged]_vars
  /\ [][(/\ ev'.op = "guess"
          /\ ev'.res \notin EarlyGuessReplies
          /\ GuessPreconditionFails(ev'.uid, ev'.text))
         => (ev'.res # "ok" /\ SessionUnchanged)]_vars

\* C18 witness: the turn holder's guess at a location no catalog entry
\* carries was rejected after an earlier move.
C18_Witness ==
  /\ ev.op = "guess"
  /\ ev.res = "LocationNotFound"
  /\ turns > 0
  /\ queue[1] = ev.uid

\* ------------------------------------------------------------------- C19
NonExactPos(g, t) == (1..Len(g)) \ ExactPos(g, t)

\* the earlier non-Exact positions of the guess that carry the letter of
\* position i
EarlierSame(g, t, i) ==
  {j \in NonExactPos(g, t) : j < i /\ UpperCh(g[j]) = UpperCh(g[i])}

\* the two-pass classification, position by position: Exact where the letters
\* agree; elsewhere Partial while the secret has more occurrences of the
\* letter outside the Exact positions than the guess has used up before
TwoPass(g, t) ==
  [i \in 1..Len(g) |->
     IF i \in ExactPos(g, t) THEN "green"
     ELSE IF Cardinality(EarlierSame(g, t, i))
               < CountOf(t, NonExactPos(g, t), UpperCh(g[i]))
          THEN "yellow"
          ELSE "gray"]

\* C19: for guess and secret of equal length compare_word returns the
\* two-pass classification, whatever the case of the letters; for every
\* letter the positions marked Exact or Partial for it are at most its
\* occurrences in the secret; and all positions are Exact exactly when guess
\* and secret are the same word.
C19_TwoPassClassification ==
  cw.done =>
    LET g == cw.guess
        t == cw.target
        out == cw.res
    IN /\ out = TwoPass(g, t)
       /\ \A c \in Uppers :
            Cardinality({i \in 1..Len(g) : out[i] # "gray" /\ UpperCh(g[i]) = c})
              <= CountOf(t, 1..Len(t), c)
       /\ (\A i \in 1..Len(g) : out[i] = "green") <=> (Upper(g) = Upper(t))

\* C19 witness: a comparison of three-letter words in which a letter is Exact
\* across a difference of case and another occurrence of a letter of the
\* secret is Absent because that letter is used up.
C19_Witness ==
  /\ cw.done
  /\ Len(cw.guess) = 3
  /\ \E i \in 1..3 : cw.res[i] = "green" /\ cw.guess[i] # cw.target[i]
  /\ \E i \in 1..3 :
       /\ cw.res[i] = "gray"
       /\ \E k \in 1..3 : UpperCh(cw.target[k]) = UpperCh(cw.guess[i])
  /\ \E i \in 1..3 : cw.res[i] = "yellow"

\* ------------------------------------------------------------------- C20
\* C20: an advance of a non-empty queue moves the head to the tail and keeps
\* the order of the others, and the new head is a registered player; an
\* advance of an empty queue changes nothing; after as many advances as the
\* queue has members, or a multiple of that, the queue is in the order it
\* started from.
C20_RotateLeft ==
  /\ [][ev'.op = "advance_queue" =>
          IF queue = <<>>
          THEN queue' = <<>> /\ active' = active /\ ev'.notes = <<>>
          ELSE /\ Len(queue') = Len(queue)
               /\ queue'[Len(queue)] = queue[1]
               /\ \A i \in 1..(Len(queue) - 1) : queue'[i] = queue[i + 1]
               /\ queue'[1] \in Registered]_vars
  /\ []((rot.orig # <<>> /\ rot.n % Len(rot.orig) = 0) => queue = rot.orig)

\* C20 witness: a queue of three players is back in its first order after
\* three advances.
C20_Witness ==
  /\ ev.op = "advance_queue"
  /\ Len(rot.orig) = 3
  /\ rot.n = 3
  /\ queue = rot.orig

\* ------------------------------------------------------------------- C21
MarkedRows(rows) == {i \in 1..Len(rows) : rows[i].marker}

\* C21 (as claimed): the score table has one line per registered player, in
\* non-increasing score order; in an active session exactly one line is
\* marked, and the queue head owns a line with that name and score; in a
\* session that is not started no line is marked.
C21_LeaderboardMarksHead ==
  [][(ev'.op = "score" /\ ev'.res = "ok") =>
       LET rows == ev'.rows
       IN /\ Len(rows) = Cardinality(Registered)
          /\ \A i \in 1..(Len(rows) - 1) : rows[i].score >= rows[i + 1].score
          /\ IF active
             THEN /\ Cardinality(MarkedRows(rows)) = 1
                  /\ \A i \in MarkedRows(rows) :
                       /\ rows[i].username = players[queue[1]].username
                       /\ rows[i].score = players[queue[1]].score
             ELSE MarkedRows(rows) = {}]_vars

\* ------------------------------------------------------------------- C22
\* C22 (as claimed): a robbery by the turn holder whose victim is not
\* registered, or is the thief, is answered InvalidTarget: no score changes,
\* the queue does not advance and no notice is sent.
C22_InvalidTargetRejected ==
  [][(/\ ev'.op = "steal"
      /\ active
      /\ ev'.uid \in Registered
      /\ queue # <<>>
      /\ queue[1] = ev'.uid
      /\ (ev'.target \notin Registered \/ ev'.target = ev'.uid))
     => /\ ev'.res = "InvalidTarget"
        /\ players' = players
        /\ queue' = queue
        /\ ev'.notes = <<>>]_vars

\* ------------------------------------------------------------------- C23
\* the steal button of a menu, or a list of steal targets, in the answer
StealOffered(e) ==
  \/ e.op = "menu" /\ \E i \in 1..Len(e.rows) : e.rows[i] = Button("steal", "")
  \/ e.op = "steal_request" /\ e.rows # <<>>

\* C23 (as claimed): the target selection of a robbery is offered only to the
\* turn holder whose score is at least 2 while another registered player has
\* at least 10, judged when the request is handled; a request that fails a
\* score condition produces no target list.
C23_StealOfferedOnlyWhenEligible ==
  [][(ev'.op \in {"menu", "steal_request"} /\ StealOffered(ev'))
       => /\ active
          /\ ev'.uid \in Registered
          /\ CanSteal(ev'.uid)]_vars

\* ------------------------------------------------------------------- C24
\* the snapshot holds a location state for the location b
HasDyn(buildings, b) == \E i \in 1..Len(buildings) : buildings[i].id = b

\* C24 (as claimed): a successful begin leaves a location state for every
\* location of the catalog, the states of the snapshot kept as they were and
\* the missing ones created open and without attempt; an accepted guess is
\* then recorded in the state of its location.
C24_BeginCompletesLocations ==
  [][/\ (ev'.op = "begin" /\ ev'.res = "ok")
          => /\ \A b \in CatalogIds :
                  /\ HasDyn(file'.buildings, b)
                  /\ IF HasDyn(file.buildings, b)
                     THEN FindDyn(file'.buildings, b) = FindDyn(file.buildings, b)
                     ELSE FindDyn(file'.buildings, b)
                            = [id |-> b, last_attempt |-> NoAttempt,
                               is_closed |-> FALSE]
     /\ (ev'.op = "guess" /\ ev'.res = "ok")
          => /\ HasDyn(file'.buildings, ev'.b)
             /\ FindDyn(file'.buildings, ev'.b).last_attempt.word
                  = GuessWord(ev'.text)
             /\ FindDyn(file'.buildings, ev'.b).is_closed
                  = IsSolved(GuessWord(ev'.text), CfgOf(ev'.b).target_word)]_vars

\* ------------------------------------------------------------------- C25
\* C25 (as claimed): the result reply of an accepted guess is issued once the
\* attempt is in the snapshot and the queue has advanced, together with the
\* one your-turn notice to the new head.
C25_ReplyAfterCommit ==
  [][(ev'.op = "guess" /\ ev'.res = "ok")
       => /\ FindDyn(file'.buildings, ev'.b).last_attempt.word = GuessWord(ev'.text)
          /\ queue' = advance_queue(queue)
          /\ ev'.notes = TurnNote(queue')]_vars

\* ------------------------------------------------------------------- C26
\* C26: whenever the session is active the queue is not empty and its head
\* is a registered player, so queue[0] and players[queue[0]] can be read.
C26_ActiveHasHead ==
  active => /\ queue # <<>>
            /\ queue[1] \in Registered
            /\ players[queue[1]].score \in Int

\* C26 witness: an active session of two players after two accepted moves,
\* the last of them a robbery.
C26_Witness ==
  /\ active
  /\ turns > 1
  /\ ev.op = "steal"
  /\ ev.res = "ok"
  /\ Len(queue) = 2
  /\ queue[1] \in Registered

====
